---- MODULE Spec2Model ----
(***************************************************************************)
(* A model of pydmrs/visualization/static/dmrs.js: the arc-diagram layout  *)
(* of a DMRS graph (prepareGraph, nextAvailableLevel, getPathSpec) and the *)
(* hover/click highlighting of its nodes (updateHighlights, toggleSticky). *)
(*                                                                         *)
(* Node identifiers are the integers 10001, 10002, ... (the nodeid         *)
(* attributes of a DMRS document); node indices are 0-based as in the      *)
(* source.  JavaScript's undefined / NaN are the sentinels below.          *)
(***************************************************************************)
EXTENDS Integers, Sequences, FiniteSets

VARIABLES
    pc,             \* position in visualizeSentence / dmrsDisplay
    doc,            \* the XML text given to visualizeSentence, abstracted
    alert,          \* class of the banner in #alert_placeholder ("" = none)
    nodes,          \* graph.nodes: the sequence of node ids
    links,          \* graph.links: the sequence of link objects
    levelIdx,       \* prepareGraph's levelIdx: gap key -> occupied levels
    maxTopLevel,    \* graph.maxTopLevel
    maxBottomLevel, \* graph.maxBottomLevel
    dist,           \* prepareGraph's loop variable dist
    li,             \* position of the inner forEach in graph.links (1-based)
    curLevel,       \* nextAvailableLevel's candidate level
    graphSticky,    \* graph.sticky
    selected,       \* node indices whose element has class "selected"
    nodeSticky,     \* node indices d with d.sticky true
    outs,           \* d3 sets of the last updateHighlights iteration
    ins,
    labelset,
    scopes,
    passes,         \* passes of the labelAdded loop in that iteration
    paths           \* per drawn link, y2 - y1 of its path in getPathSpec

vars == <<pc, doc, alert, nodes, links, levelIdx, maxTopLevel, maxBottomLevel,
          dist, li, curLevel, graphSticky, selected, nodeSticky,
          outs, ins, labelset, scopes, passes, paths>>

layoutVars == <<levelIdx, maxTopLevel, maxBottomLevel, dist, li, curLevel>>
uiVars == <<selected, nodeSticky, outs, ins, labelset, scopes, passes>>

(***************************************************************************)
(* Bounds of the model.                                                    *)
(***************************************************************************)
MaxNodes == 3
MaxLinks == 2
\* the same for the specification with fairness
LiveNodes == 2
LiveLinks == 2
\* the same for the specification of reordered link lists
PermNodes == 4
PermLinks == 2
\* the same for the specification of the node handlers
UiNodes == 3
UiLinks == 1
\* the same for the specification of the highlight sets
HlNodes == 3
HlLinks == 2

(***************************************************************************)
(* Values of the source.                                                   *)
(***************************************************************************)
\* start of 0 is TOP link
TopStart == 0
\* vertical separation between edges
level_dy == 25
\* the first nodeid of a document is IdBase + 1
IdBase == 10000
\* JavaScript's undefined for an index looked up in nodeIdx (never an index)
Undefined == 0 - 1
\* JavaScript's NaN for d.distance (never a distance)
NaN == 0 - 2
\* a link's level or dir before prepareGraph assigns it (never a level:
\* nextAvailableLevel itself reads level 0 as "none found yet")
Unset == 0

Abs(x) == IF x < 0 THEN 0 - x ELSE x
Min2(a, b) == IF a < b THEN a ELSE b
Max2(a, b) == IF a < b THEN b ELSE a

(***************************************************************************)
(* Documents: what $.parseXML makes of the text.                           *)
(***************************************************************************)
\* String.prototype.toUpperCase on the post-types the documents use
ToUpperCase(s) ==
    CASE s = "h" -> "H"
      [] s = "eq" -> "EQ"
      [] OTHER -> s

NodeIds(n) == [i \in 1..n |-> IdBase + i]

\* the id one past the last node's: an id no node of an n-node document has
MissingId(n) == IdBase + n + 1

RawLink(s, e, r, p) == [start |-> s, end |-> e, rargname |-> r, post |-> p]

OkDoc(ns, ls) == [kind |-> "ok", nodes |-> ns, links |-> ls]
BadDoc(k) == [kind |-> k, nodes |-> <<>>, links |-> <<>>]

(***************************************************************************)
(* prepareGraph's helpers.                                                 *)
(***************************************************************************)
\* nodeIdx[id] after graph.nodes.forEach: the index of the last node with
\* that id, undefined when no node has it
NodeIdx(ns, id) ==
    IF \E i \in 1..Len(ns) : ns[i] = id
    THEN (CHOOSE i \in 1..Len(ns) :
              ns[i] = id /\ \A j \in (i+1)..Len(ns) : ns[j] # id) - 1
    ELSE Undefined

\* [i, i+1].join(), the key of the gap between nodes i and i+1
GapKey(i) == <<i, i + 1>>

\* levelIdx as built by graph.nodes.forEach: one empty object per node
EmptyLevelIdx(n) == [k \in {GapKey(i) : i \in 0..(n-1)} |-> {}]

\* Distance with d.source named twice in the subtraction
DistanceOfSource(source, target) ==
    IF source = Undefined \/ target = Undefined THEN NaN
    ELSE Abs(source - source)

\* Distance without Math.abs
DistanceSigned(source, target) ==
    IF source = Undefined \/ target = Undefined THEN NaN
    ELSE source - target

\* Math.abs(d.source - d.target); NaN when either index is undefined
Distance(source, target) ==
    IF source = Undefined \/ target = Undefined THEN NaN
    ELSE Abs(source - target)

\* d.dir of a non-TOP link
LinkDir(rargname, post) ==
    IF rargname = "" \/ ToUpperCase(post) = "H" THEN 0 - 1 ELSE 1

IsTop(d) == d.start = TopStart

\* the link object parseXmlDMRS builds
ParseLink(ns, raw) ==
    [start |-> raw.start, end |-> raw.end,
     rargname |-> raw.rargname, post |-> raw.post,
     source |-> NodeIdx(ns, raw.start), target |-> NodeIdx(ns, raw.end),
     distance |-> Undefined, dir |-> Unset, level |-> Unset]

\* the first graph.links.forEach of prepareGraph, on one link
ResolveLink(ns, d) ==
    IF IsTop(d)
    THEN [d EXCEPT !.target = NodeIdx(ns, d.end), !.dir = 1]
    ELSE [d EXCEPT !.target = NodeIdx(ns, d.end),
                   !.source = NodeIdx(ns, d.start),
                   !.distance = Distance(NodeIdx(ns, d.start), NodeIdx(ns, d.end)),
                   !.dir = LinkDir(d.rargname, d.post)]

\* Blocked with the loop stopping one gap short (i < target - 1)
BlockedOneShort(idx, source, target, lvl) ==
    \E i \in source..(target - 2) : lvl \in idx[GapKey(i)]

\* the test of nextAvailableLevel's for loop, for source <= target:
\* curLevel is taken in some gap of the span
Blocked(idx, source, target, lvl) ==
    \E i \in source..(target - 1) : lvl \in idx[GapKey(i)]

\* lvlIdx after the second for loop marked level in every gap of the span
Occupy(idx, source, target, lvl) ==
    [k \in DOMAIN idx |->
        IF \E i \in source..(target - 1) : k = GapKey(i)
        THEN idx[k] \cup {lvl} ELSE idx[k]]

\* NextCandidate with a step that forgets the direction
NextCandidateUp(lvl, dir) == lvl + 1

\* the step of the search after a rejected candidate
NextCandidate(lvl, dir) == lvl + dir

\* NewMaxTop with the comparison the wrong way round
NewMaxTopReversed(mt, dir, lvl) == IF dir = 1 /\ mt > lvl THEN lvl ELSE mt

\* graph.maxTopLevel after a link of direction dir got level lvl
NewMaxTop(mt, dir, lvl) == IF dir = 1 /\ mt < lvl THEN lvl ELSE mt

\* graph.maxBottomLevel after a link of direction dir got level lvl
NewMaxBottom(mt, mb, dir, lvl) ==
    IF dir = 1 /\ mt < lvl THEN mb
    ELSE IF dir = 0 - 1 /\ mb > lvl THEN lvl ELSE mb

\* the inner forEach returns at once for this link in pass dist
Skips(d, ds) == IsTop(d) \/ ds # d.distance

\* PathHeight with the TOP link drawn at maxTopLevel, not one beyond
PathHeightNoMargin(d, mt, mb) ==
    IF IsTop(d)
    THEN (IF d.dir = 1 THEN mt ELSE mb) * level_dy
    ELSE Abs(d.level) * level_dy - 5

\* y2 - y1 in getPathSpec: how far from the node line the link's path runs
PathHeight(d, mt, mb) ==
    IF IsTop(d)
    THEN ((IF d.dir = 1 THEN mt ELSE mb) + 1) * level_dy
    ELSE Abs(d.level) * level_dy - 5

\* getPathSpec reads a property of graph.nodes[undefined]: a TypeError
PathThrows(d) == d.target = Undefined \/ (~IsTop(d) /\ d.source = Undefined)

\* the paths drawn before the first link whose path throws, if any
DrawnPaths(ls, mt, mb) ==
    LET bad == {i \in 1..Len(ls) : PathThrows(ls[i])}
        upto == IF bad = {} THEN Len(ls)
                ELSE (CHOOSE i \in bad : \A j \in bad : i <= j) - 1
    IN [i \in 1..upto |-> PathHeight(ls[i], mt, mb)]

(***************************************************************************)
(* Initial states: visualizeSentence is called with a text.                *)
(***************************************************************************)
InitRest ==
    /\ pc = "visualize"
    /\ alert = ""
    /\ nodes = <<>>
    /\ links = <<>>
    /\ levelIdx = EmptyLevelIdx(0)
    /\ maxTopLevel = 0
    /\ maxBottomLevel = 0
    /\ dist = 0
    /\ li = 1
    /\ curLevel = Unset
    /\ graphSticky = FALSE
    /\ selected = {}
    /\ nodeSticky = {}
    /\ outs = {}
    /\ ins = {}
    /\ labelset = {}
    /\ scopes = {}
    /\ passes = 0
    /\ paths = <<>>

(***************************************************************************)
(* visualizeSentence and parseXmlDMRS.                                     *)
(***************************************************************************)
NoXml ==
    /\ pc = "visualize"
    /\ doc.kind = "empty"
    /\ alert' = "alert-danger"
    /\ pc' = "failed"
    /\ UNCHANGED <<doc, nodes, links, layoutVars, graphSticky, uiVars, paths>>

ParseError ==
    /\ pc = "visualize"
    /\ doc.kind = "malformed"
    /\ alert' = "alert-danger"
    /\ pc' = "failed"
    /\ UNCHANGED <<doc, nodes, links, layoutVars, graphSticky, uiVars, paths>>

ParseXmlDMRS ==
    /\ pc = "visualize"
    /\ doc.kind = "ok"
    /\ alert' = "alert-info"
    /\ nodes' = doc.nodes
    /\ links' = [i \in 1..Len(doc.links) |-> ParseLink(doc.nodes, doc.links[i])]
    /\ pc' = "prepare"
    /\ UNCHANGED <<doc, layoutVars, graphSticky, uiVars, paths>>

(***************************************************************************)
(* prepareGraph.  PrepareStep is one step of it on the record st of the    *)
(* graph's fields and the function's loop variables: the first two         *)
(* forEach calls, one iteration of the inner forEach, one candidate of     *)
(* nextAvailableLevel's while loop, or the end of a pass.  The actions     *)
(* below take one step each; RunPrepareGraph takes them all.               *)
(***************************************************************************)
LayoutState ==
    [pc |-> pc, links |-> links, levelIdx |-> levelIdx,
     maxTopLevel |-> maxTopLevel, maxBottomLevel |-> maxBottomLevel,
     dist |-> dist, li |-> li, curLevel |-> curLevel,
     graphSticky |-> graphSticky]

\* which statement of prepareGraph runs next
PrepareKind(ns, st) ==
    CASE st.pc = "prepare" -> "start"
      [] st.pc = "scan" /\ st.dist >= Len(ns) -> "end"
      [] st.pc = "scan" /\ st.dist < Len(ns) /\ st.li > Len(st.links) -> "nextdist"
      [] st.pc = "scan" /\ st.dist < Len(ns) /\ st.li <= Len(st.links) ->
            IF Skips(st.links[st.li], st.dist) THEN "skip" ELSE "call"
      [] st.pc = "search" ->
            LET d == st.links[st.li]
            IN IF Blocked(st.levelIdx, Min2(d.source, d.target),
                          Max2(d.source, d.target), st.curLevel)
               THEN "reject" ELSE "accept"
      [] OTHER -> "none"

\* lines 162-181: nodeIdx, levelIdx, the links' fields, the two maxima
StepStart(ns, st) ==
    [st EXCEPT !.levelIdx = EmptyLevelIdx(Len(ns)),
               !.links = [i \in 1..Len(st.links) |-> ResolveLink(ns, st.links[i])],
               !.maxTopLevel = 0,
               !.maxBottomLevel = 0,
               !.dist = 0,
               !.li = 1,
               !.pc = "scan"]

\* lines 184-185: the forEach callback returns
StepSkip(st) == [st EXCEPT !.li = st.li + 1]

\* line 186 calls nextAvailableLevel: curLevel = dir
StepCall(st) ==
    [st EXCEPT !.curLevel = st.links[st.li].dir, !.pc = "search"]

\* lines 217-218: the candidate is taken in some gap
StepReject(st) ==
    [st EXCEPT !.curLevel = NextCandidate(st.curLevel, st.links[st.li].dir)]

\* lines 212-216 and 186-191: the candidate is free; mark it, return it,
\* store it in d.level and update the maxima
StepAccept(st) ==
    LET d == st.links[st.li]
    IN [st EXCEPT
          !.levelIdx = Occupy(st.levelIdx, Min2(d.source, d.target),
                              Max2(d.source, d.target), st.curLevel),
          !.links = [st.links EXCEPT ![st.li].level = st.curLevel],
          !.maxTopLevel = NewMaxTop(st.maxTopLevel, d.dir, st.curLevel),
          !.maxBottomLevel = NewMaxBottom(st.maxTopLevel, st.maxBottomLevel,
                                          d.dir, st.curLevel),
          !.curLevel = Unset,
          !.li = st.li + 1,
          !.pc = "scan"]

\* line 182: dist++, and the inner forEach starts over
StepNextDist(st) == [st EXCEPT !.dist = st.dist + 1, !.li = 1]

\* line 194
StepEnd(st) == [st EXCEPT !.graphSticky = FALSE, !.pc = "render"]

\* the statement of the given kind, run on st
ApplyStep(kind, ns, st) ==
    CASE kind = "start" -> StepStart(ns, st)
      [] kind = "skip" -> StepSkip(st)
      [] kind = "call" -> StepCall(st)
      [] kind = "reject" -> StepReject(st)
      [] kind = "accept" -> StepAccept(st)
      [] kind = "nextdist" -> StepNextDist(st)
      [] kind = "end" -> StepEnd(st)
      [] OTHER -> st

PrepareStep(ns, st) == ApplyStep(PrepareKind(ns, st), ns, st)

\* prepareGraph run to its end
RECURSIVE RunPrepareGraph(_, _)
RunFrom(kind, ns, st) ==
    IF kind = "none" THEN st
    ELSE RunPrepareGraph(ns, ApplyStep(kind, ns, st))

RunPrepareGraph(ns, st) == RunFrom(PrepareKind(ns, st), ns, st)

SetLayout(st) ==
    /\ pc' = st.pc
    /\ links' = st.links
    /\ levelIdx' = st.levelIdx
    /\ maxTopLevel' = st.maxTopLevel
    /\ maxBottomLevel' = st.maxBottomLevel
    /\ dist' = st.dist
    /\ li' = st.li
    /\ curLevel' = st.curLevel
    /\ graphSticky' = st.graphSticky

PrepareGraphStart ==
    /\ PrepareKind(nodes, LayoutState) = "start"
    /\ SetLayout(StepStart(nodes, LayoutState))
    /\ UNCHANGED <<doc, alert, nodes, uiVars, paths>>

SkipLink ==
    /\ PrepareKind(nodes, LayoutState) = "skip"
    /\ SetLayout(StepSkip(LayoutState))
    /\ UNCHANGED <<doc, alert, nodes, uiVars, paths>>

CallNextAvailableLevel ==
    /\ PrepareKind(nodes, LayoutState) = "call"
    /\ SetLayout(StepCall(LayoutState))
    /\ UNCHANGED <<doc, alert, nodes, uiVars, paths>>

SearchReject ==
    /\ PrepareKind(nodes, LayoutState) = "reject"
    /\ SetLayout(StepReject(LayoutState))
    /\ UNCHANGED <<doc, alert, nodes, uiVars, paths>>

SearchAccept ==
    /\ PrepareKind(nodes, LayoutState) = "accept"
    /\ SetLayout(StepAccept(LayoutState))
    /\ UNCHANGED <<doc, alert, nodes, uiVars, paths>>

NextDist ==
    /\ PrepareKind(nodes, LayoutState) = "nextdist"
    /\ SetLayout(StepNextDist(LayoutState))
    /\ UNCHANGED <<doc, alert, nodes, uiVars, paths>>

PrepareGraphEnd ==
    /\ PrepareKind(nodes, LayoutState) = "end"
    /\ SetLayout(StepEnd(LayoutState))
    /\ UNCHANGED <<doc, alert, nodes, uiVars, paths>>

(***************************************************************************)
(* The rest of dmrsDisplay: the links' paths; then showGraphs returns and  *)
(* visualizeSentence clears the banner.                                    *)
(***************************************************************************)
DrawLinks ==
    /\ pc = "render"
    /\ \A i \in 1..Len(links) : ~PathThrows(links[i])
    /\ paths' = DrawnPaths(links, maxTopLevel, maxBottomLevel)
    /\ alert' = ""
    /\ pc' = "ready"
    /\ UNCHANGED <<doc, nodes, links, layoutVars, graphSticky, uiVars>>

DrawLinksThrows ==
    /\ pc = "render"
    /\ \E i \in 1..Len(links) : PathThrows(links[i])
    /\ paths' = DrawnPaths(links, maxTopLevel, maxBottomLevel)
    /\ pc' = "crashed"
    /\ UNCHANGED <<doc, alert, nodes, links, layoutVars, graphSticky, uiVars>>

(***************************************************************************)
(* dmrsDisplay as one step: prepareGraph, then the links' paths.           *)
(***************************************************************************)
\* the graph prepareGraph leaves, given the nodes and the parsed links
PrepareGraphOf(ns, ls) ==
    RunPrepareGraph(ns,
        [pc |-> "prepare", links |-> ls, levelIdx |-> EmptyLevelIdx(0),
         maxTopLevel |-> 0, maxBottomLevel |-> 0, dist |-> 0, li |-> 1,
         curLevel |-> Unset, graphSticky |-> FALSE])

DmrsDisplay ==
    /\ pc = "prepare"
    /\ \E st \in {PrepareGraphOf(nodes, links)} :
         LET throws == \E i \in 1..Len(st.links) : PathThrows(st.links[i])
         IN /\ SetLayout([st EXCEPT !.pc = IF throws THEN "crashed" ELSE "ready"])
            /\ paths' = DrawnPaths(st.links, st.maxTopLevel, st.maxBottomLevel)
            /\ alert' = IF throws THEN alert ELSE ""
    /\ UNCHANGED <<doc, nodes, uiVars>>

(***************************************************************************)
(* updateHighlights.                                                       *)
(***************************************************************************)
\* the "out" classed function over all links, for selected node id
OutSet(ls, id) ==
    {ls[k].end : k \in {j \in 1..Len(ls) : ls[j].rargname # "" /\ id = ls[j].start}}

\* the "in" classed function
InSet(ls, id) ==
    {ls[k].start : k \in {j \in 1..Len(ls) : ls[j].rargname # "" /\ id = ls[j].end}}

\* the "scope" classed function
ScopeSet(ls, id) ==
    {ls[k].end : k \in {j \in 1..Len(ls) :
        ls[j].start = id /\ (ls[j].post = "H" \/ ls[j].post = "HEQ")}}

\* the "labelset" classed function: both ends of every EQ link at the node
LabelSeed(ls, id) ==
    UNION {{ls[k].start, ls[k].end} : k \in {j \in 1..Len(ls) :
        ls[j].post = "EQ" /\ (ls[j].start = id \/ ls[j].end = id)}}

\* LabelStep following a link from its start to its end only
LabelStepForward(d, S) ==
    IF d.post = "EQ" /\ d.start \in S /\ d.end \notin S
    THEN S \cup {d.end} ELSE S

\* what one link does to labelset inside the while loop
LabelStep(d, S) ==
    IF d.post = "EQ"
    THEN IF d.start \in S /\ d.end \notin S THEN S \cup {d.end}
         ELSE IF d.end \in S /\ d.start \notin S THEN S \cup {d.start}
         ELSE S
    ELSE S

\* one pass of the while loop: selectAll(".link").each from link i on
RECURSIVE LabelPass(_, _, _)
LabelPass(ls, i, S) ==
    IF i > Len(ls) THEN S ELSE LabelPass(ls, i + 1, LabelStep(ls[i], S))

\* the while (labelAdded) loop after k passes; labelAdded is set in a pass
\* exactly when the pass added a member
RECURSIVE LabelLoop(_, _, _)
LabelAgain(ls, S, T, k) ==
    IF T = S THEN [set |-> S, passes |-> k + 1]
    ELSE LabelLoop(ls, T, k + 1)

LabelLoop(ls, S, k) == LabelAgain(ls, S, LabelPass(ls, 1, S), k)

\* the sets of the iteration for the selected node with the given id
HighlightsOf(ls, id, loop) ==
    [outs |-> OutSet(ls, id), ins |-> InSet(ls, id),
     labelset |-> loop.set, scopes |-> ScopeSet(ls, id),
     passes |-> loop.passes]

\* the last selected node in document order
LastOf(sel) == CHOOSE i \in sel : \A j \in sel : j <= i

\* the sets of the iteration for the last selected node (each iteration
\* re-classes every node and link, so the last one's classes stay); with no
\* node selected clearHighlights leaves no class at all
Highlights(ns, ls, sel) ==
    IF sel = {}
    THEN [outs |-> {}, ins |-> {}, labelset |-> {}, scopes |-> {}, passes |-> 0]
    ELSE HighlightsOf(ls, ns[LastOf(sel) + 1],
                      LabelLoop(ls, LabelSeed(ls, ns[LastOf(sel) + 1]), 0))

UpdateHighlights(sel) ==
    \E h \in {Highlights(nodes, links, sel)} :
       /\ outs' = h.outs
       /\ ins' = h.ins
       /\ labelset' = h.labelset
       /\ scopes' = h.scopes
       /\ passes' = h.passes

\* the nodes that carry a highlight class: those whose id the set has
NodesClassed(S) == {i \in 0..(Len(nodes) - 1) : nodes[i + 1] \in S}

(***************************************************************************)
(* The node handlers dmrsDisplay registers, and toggleSticky.              *)
(***************************************************************************)
\* the handlers are registered before the links are drawn
Interactive == pc \in {"ready", "crashed"}

NodeIndices == 0..(Len(nodes) - 1)

\* SelectedAfterOver without the test of graph.sticky
SelectedAfterOverAlways(sel, gs, i) == sel \cup {i}

SelectedAfterOver(sel, gs, i) == IF ~gs THEN sel \cup {i} ELSE sel

SelectedAfterOut(sel, st, i) == IF i \notin st THEN sel \ {i} ELSE sel

\* toggleSticky's effect on the selected class
SelectedAfterToggle(sel, st, i) == IF i \in st THEN sel \ {i} ELSE {i}

\* toggleSticky's effect on the sticky flags
StickyAfterToggle(sel, st, i) ==
    IF i \in st THEN st \ {i} ELSE (st \ sel) \cup {i}

MouseOverNode(i) ==
    /\ Interactive
    /\ selected' = SelectedAfterOver(selected, graphSticky, i)
    /\ UpdateHighlights(selected')
    /\ UNCHANGED <<pc, doc, alert, nodes, links, layoutVars, graphSticky,
                   nodeSticky, paths>>

MouseOutNode(i) ==
    /\ Interactive
    /\ selected' = SelectedAfterOut(selected, nodeSticky, i)
    /\ UpdateHighlights(selected')
    /\ UNCHANGED <<pc, doc, alert, nodes, links, layoutVars, graphSticky,
                   nodeSticky, paths>>

ClickNode(i) ==
    /\ Interactive
    /\ selected' = SelectedAfterToggle(selected, nodeSticky, i)
    /\ nodeSticky' = StickyAfterToggle(selected, nodeSticky, i)
    /\ graphSticky' = (i \in nodeSticky')
    /\ UpdateHighlights(selected')
    /\ UNCHANGED <<pc, doc, alert, nodes, links, layoutVars, paths>>

\* the events in any order, on any nodes
MouseOver == \E i \in NodeIndices : MouseOverNode(i)

MouseOut == \E i \in NodeIndices : MouseOutNode(i)

Click == \E i \in NodeIndices : ClickNode(i)

\* the pointer enters a node while it is over none
PointerEnters == \E i \in NodeIndices : selected = {} /\ MouseOverNode(i)

\* the pointer leaves the node it is over
PointerLeaves == \E i \in NodeIndices : selected = {i} /\ MouseOutNode(i)

(***************************************************************************)
(* Specifications.                                                         *)
(***************************************************************************)
\* a TOP link as pydmrs writes it: no role, post-type H
TopLinks(n) == {RawLink(TopStart, IdBase + e, "", "H") : e \in 1..n}

\* (role, post-type) pairs: one drawn above the line, one below
LayoutKinds == {<<"ARG1", "NEQ">>, <<"", "EQ">>}

NodeLinks(n, kinds) ==
    {RawLink(IdBase + s, IdBase + e, k[1], k[2]) :
        s \in 1..n, e \in 1..n, k \in kinds}

\* links with an end that is no node's id, for a document with n nodes
DanglingLinks(n) ==
    {RawLink(IdBase + 1, MissingId(n), "ARG1", "NEQ"),
     RawLink(MissingId(n), IdBase + 1, "ARG1", "NEQ"),
     RawLink(TopStart, MissingId(n), "", "H")}

UnreadableDocs == {BadDoc("empty"), BadDoc("malformed")}

DanglingDocs ==
    {OkDoc(NodeIds(1), <<l>>) : l \in DanglingLinks(1)}

\* doc is a document of at most maxn nodes and maxl links, each link
\* drawn from alphabet[n]
DocFrom(alphabet, maxn, maxl) ==
    \E n \in 0..maxn : \E k \in 0..maxl : \E ls \in [1..k -> alphabet[n]] :
        doc = OkDoc(NodeIds(n), ls)

LayoutLinks(n) == TopLinks(n) \cup NodeLinks(n, LayoutKinds)

LayoutInit ==
    /\ \/ doc \in UnreadableDocs \cup DanglingDocs
       \/ DocFrom([n \in 0..MaxNodes |-> LayoutLinks(n)], MaxNodes, MaxLinks)
    /\ InitRest

PrepareGraph ==
    \/ PrepareGraphStart
    \/ SkipLink
    \/ CallNextAvailableLevel
    \/ SearchReject
    \/ SearchAccept
    \/ NextDist
    \/ PrepareGraphEnd

VisualizeSentence ==
    \/ NoXml
    \/ ParseError
    \/ ParseXmlDMRS
    \/ PrepareGraph
    \/ DrawLinks
    \/ DrawLinksThrows

\* visualizeSentence with dmrsDisplay as one step
Display ==
    \/ NoXml
    \/ ParseError
    \/ ParseXmlDMRS
    \/ DmrsDisplay

Next == Display \/ MouseOver \/ MouseOut \/ Click

LayoutSpec == LayoutInit /\ [][VisualizeSentence]_vars

\* a non-TOP link of each direction over every span, written from its
\* lower to its higher node (the other way round it is laid out alike:
\* nextAvailableLevel swaps the two, and LayoutSpec has both)
PermLinkSet(n) == {l \in NodeLinks(n, LayoutKinds) : l.start <= l.end}

PermInit ==
    /\ \/ doc \in UnreadableDocs \cup DanglingDocs
       \/ DocFrom([n \in 0..PermNodes |-> PermLinkSet(n)], PermNodes, PermLinks)
    /\ InitRest

PermSpec == PermInit /\ [][Display]_vars

\* (role, post-type) pairs: an argument link, a bare equality, a handle link
UiKinds == {<<"ARG1", "NEQ">>, <<"", "EQ">>, <<"RSTR", "H">>}

UiLinkSet(n) == NodeLinks(n, UiKinds)

Init ==
    /\ \/ doc \in UnreadableDocs \cup DanglingDocs
       \/ DocFrom([n \in 0..UiNodes |-> UiLinkSet(n)], UiNodes, UiLinks)
    /\ InitRest

Spec == Init /\ [][Next]_vars

\* (role, post-type) pairs: a plain argument link, an argument link that is
\* a scope link too, and a bare equality
HlKinds == {<<"ARG1", "NEQ">>, <<"ARG1", "HEQ">>, <<"", "EQ">>}

HlLinkSet(n) == NodeLinks(n, HlKinds)

HlInit ==
    /\ \/ doc \in UnreadableDocs \cup DanglingDocs
       \/ DocFrom([n \in 0..HlNodes |-> HlLinkSet(n)], HlNodes, HlLinks)
    /\ InitRest

\* a graph is displayed and the pointer moves over its nodes, one at a time
HighlightSpec == HlInit /\ [][Display \/ PointerEnters \/ PointerLeaves]_vars

\* every (role, post-type) pair the properties tell apart
AllKinds ==
    {<<"ARG1", "NEQ">>, <<"ARG1", "EQ">>, <<"ARG1", "HEQ">>, <<"RSTR", "H">>,
     <<"RSTR", "h">>, <<"", "EQ">>, <<"", "NEQ">>, <<"", "HEQ">>}

\* links between any two ids, the id of no node among them
WideLinkSet(n) ==
    {RawLink(TopStart, IdBase + e, "", "H") : e \in 1..(n + 1)} \cup
    {RawLink(IdBase + s, IdBase + e, k[1], k[2]) :
        s \in 1..(n + 1), e \in 1..(n + 1), k \in AllKinds}

WideInit ==
    /\ \/ doc \in UnreadableDocs
       \/ DocFrom([n \in 0..MaxNodes |-> WideLinkSet(n)], MaxNodes, MaxLinks)
    /\ InitRest

WideSpec == WideInit /\ [][VisualizeSentence]_vars

LiveInit ==
    /\ \/ doc \in UnreadableDocs \cup DanglingDocs
       \/ DocFrom([n \in 0..LiveNodes |-> LayoutLinks(n)], LiveNodes, LiveLinks)
    /\ InitRest

\* visualizeSentence is one synchronous call: once started it runs on
LiveSpec ==
    LiveInit /\ [][VisualizeSentence]_vars /\ WF_vars(VisualizeSentence)

(***************************************************************************)
(* Vocabulary of the properties.                                           *)
(***************************************************************************)
NonTop(ls) == {i \in 1..Len(ls) : ~IsTop(ls[i])}

Tops(ls) == {i \in 1..Len(ls) : IsTop(ls[i])}

\* every non-TOP link's start and end ids resolve to node indices
WellFormed ==
    \A i \in NonTop(links) :
        /\ NodeIdx(nodes, links[i].start) # Undefined
        /\ NodeIdx(nodes, links[i].end) # Undefined

\* prepareGraph has started, so the graph's maxima exist
Preparing == pc \in {"scan", "search", "render", "ready", "crashed"}

\* prepareGraph has returned
Prepared == pc \in {"render", "ready", "crashed"}

\* the gaps (i, i+1) a resolved link crosses, each named by its left node i
Span(d) == Min2(d.source, d.target)..(Max2(d.source, d.target) - 1)

\* the reference greedy of the specification: links in non-decreasing
\* |source - target| order, ties in input order, each at the first free lane
RefBefore(ls, i, j) ==
    \/ Abs(ls[i].source - ls[i].target) < Abs(ls[j].source - ls[j].target)
    \/ /\ Abs(ls[i].source - ls[i].target) = Abs(ls[j].source - ls[j].target)
       /\ i < j

RefOrder(ls) ==
    [p \in 1..Cardinality(NonTop(ls)) |->
        CHOOSE i \in NonTop(ls) :
            Cardinality({j \in NonTop(ls) : RefBefore(ls, j, i)}) = p - 1]

RefFree(occ, d, lvl) == \A g \in Span(d) : <<g, lvl>> \notin occ

RefLane(occ, d, maxk) ==
    CHOOSE k \in 1..maxk :
        /\ RefFree(occ, d, d.dir * k)
        /\ \A m \in 1..(k - 1) : ~RefFree(occ, d, d.dir * m)

RECURSIVE RefPlace(_, _, _, _, _)
RefPlace(ls, order, p, occ, lv) ==
    IF p > Len(order) THEN lv
    ELSE LET i == order[p]
             lvl == ls[i].dir * RefLane(occ, ls[i], Len(ls) + 1)
         IN RefPlace(ls, order, p + 1,
                     occ \cup {<<g, lvl>> : g \in Span(ls[i])},
                     [lv EXCEPT ![i] = lvl])

RefLevels(ls) == RefPlace(ls, RefOrder(ls), 1, {}, [i \in NonTop(ls) |-> Unset])

\* two links of the same direction over the same gaps
Twins(ls, i, j) ==
    /\ ls[i].dir = ls[j].dir
    /\ Span(ls[i]) = Span(ls[j])

(***************************************************************************)
(* Properties of the layout.                                               *)
(***************************************************************************)
\* C1: after prepareGraph on a well-formed graph, no two distinct non-TOP
\* links have the same signed level while their spans share a gap.
C1_NoCollision ==
    (Prepared /\ WellFormed) =>
        \A i \in NonTop(links) : \A j \in NonTop(links) :
            (i # j /\ links[i].level = links[j].level) =>
                Span(links[i]) \cap Span(links[j]) = {}

\* two links of one direction whose spans share a gap have been laid out
C1_Witness ==
    /\ pc = "ready"
    /\ WellFormed
    /\ \E i \in NonTop(links) : \E j \in NonTop(links) :
          /\ i # j
          /\ links[i].dir = links[j].dir
          /\ Span(links[i]) \cap Span(links[j]) # {}
          /\ links[i].level # links[j].level

\* the levels prepareGraph assigned are those of the reference greedy
MatchesReference ==
    [i \in NonTop(links) |-> links[i].level] = RefLevels(links)

\* C2 as stated: the levels are the reference greedy's, and any two
\* same-direction links with identical span get consecutive levels, the
\* earlier in the input the inner one.
C2_AsStated ==
    (Prepared /\ WellFormed) =>
        /\ MatchesReference
        /\ \A i \in NonTop(links) : \A j \in NonTop(links) :
              (i < j /\ Twins(links, i, j)) =>
                  links[j].level = links[i].level + links[i].dir

\* C2 as amended: the levels are the reference greedy's; two same-direction
\* links with the same non-empty span get different levels, the earlier in
\* the input the one nearer the node line, and consecutive levels (dir and
\* 2*dir) when they are the graph's only non-TOP links.
C2_GreedyLevels ==
    (Prepared /\ WellFormed) =>
        /\ MatchesReference
        /\ \A i \in NonTop(links) : \A j \in NonTop(links) :
              (i < j /\ Twins(links, i, j) /\ Span(links[i]) # {}) =>
                  /\ Abs(links[i].level) < Abs(links[j].level)
                  /\ NonTop(links) = {i, j} =>
                        /\ links[i].level = links[i].dir
                        /\ links[j].level = 2 * links[i].dir

\* the scenario of the specification, with a shorter link given after a
\* longer one so that the order of placement is not the input order
C2_Witness ==
    /\ pc = "ready"
    /\ WellFormed
    /\ \E i \in NonTop(links) : \E j \in NonTop(links) :
          /\ i < j
          /\ Twins(links, i, j)
          /\ links[i].source = 0 /\ links[i].target = 1 /\ links[i].dir = 1
          /\ links[i].level = 1 /\ links[j].level = 2

\* C4: maxTopLevel >= 0 and maxBottomLevel <= 0; every placed direction +1
\* non-TOP link has its level in [1, maxTopLevel] and every placed
\* direction -1 link in [maxBottomLevel, -1], after each placement; after
\* prepareGraph on a well-formed graph every non-TOP link is placed.
C4_LevelBounds ==
    /\ Preparing =>
          /\ maxTopLevel >= 0
          /\ maxBottomLevel <= 0
          /\ \A i \in NonTop(links) : links[i].level # Unset =>
                /\ links[i].dir = 1 =>
                      (1 <= links[i].level /\ links[i].level <= maxTopLevel)
                /\ links[i].dir = 0 - 1 =>
                      (maxBottomLevel <= links[i].level /\ links[i].level <= 0 - 1)
                /\ links[i].dir \in {1, 0 - 1}
    /\ (Prepared /\ WellFormed) =>
          \A i \in NonTop(links) : links[i].level # Unset

\* a pass is under way with a link placed above and a link placed below
C4_Witness ==
    /\ pc = "scan"
    /\ WellFormed
    /\ \E i \in NonTop(links) : links[i].dir = 1 /\ links[i].level = maxTopLevel
                                /\ maxTopLevel >= 1
    /\ \E i \in NonTop(links) : links[i].dir = 0 - 1 /\ links[i].level = maxBottomLevel
                                /\ maxBottomLevel <= 0 - 1

\* C5: a TOP link is never passed to the level search, never occupies a
\* lane of the occupancy map and gets no level; it has direction +1 and is
\* drawn at lane maxTopLevel + 1 (the final maxTopLevel), strictly beyond
\* every direction +1 non-TOP link, wherever it stands in the link list.
C5_TopLink ==
    /\ pc = "search" => ~IsTop(links[li])
    /\ \A i \in Tops(links) : links[i].level = Unset
    /\ \A k \in DOMAIN levelIdx : \A lvl \in levelIdx[k] :
          \E i \in NonTop(links) : links[i].level = lvl /\ k[1] \in Span(links[i])
    /\ Preparing => \A i \in Tops(links) : links[i].dir = 1
    /\ \A i \in Tops(links) \cap DOMAIN paths :
          /\ paths[i] = (maxTopLevel + 1) * level_dy
          /\ \A j \in NonTop(links) : links[j].dir = 1 =>
                /\ paths[i] > links[j].level * level_dy
                /\ j \in DOMAIN paths => paths[i] > paths[j]
    /\ pc = "ready" => DOMAIN paths = 1..Len(links)

\* a TOP link given after a direction +1 link on lane 2 has been drawn
C5_Witness ==
    /\ pc = "ready"
    /\ \E i \in Tops(links) : \E j \in NonTop(links) :
          /\ j < i
          /\ links[j].dir = 1
          /\ links[j].level >= 1
          /\ paths[i] = (links[j].level + 1) * level_dy

\* the document's non-TOP links all name nodes of the document
WellFormedDoc ==
    /\ doc.kind = "ok"
    /\ \A i \in 1..Len(doc.links) : doc.links[i].start # TopStart =>
          /\ NodeIdx(doc.nodes, doc.links[i].start) # Undefined
          /\ NodeIdx(doc.nodes, doc.links[i].end) # Undefined

SelfLoop(d) == ~IsTop(d) /\ d.source # Undefined /\ d.source = d.target

\* C7: on a well-formed graph prepareGraph terminates with every non-TOP
\* link at a nonzero level; a self-loop is never rejected in the search and
\* gets level dir.
C7_Terminates ==
    /\ (pc = "visualize" /\ WellFormedDoc) ~>
          (Prepared /\ \A i \in NonTop(links) : links[i].level # Unset)
    /\ [](pc = "search" /\ SelfLoop(links[li]) => curLevel = links[li].dir)
    /\ [](Prepared /\ WellFormed =>
            \A i \in NonTop(links) :
                SelfLoop(links[i]) => links[i].level = links[i].dir)

\* prepareGraph returned after a search that rejected a lane, for a link
\* placed in the last pass of the distance loop
C7_Witness ==
    /\ Prepared
    /\ WellFormed
    /\ \E i \in NonTop(links) :
          /\ Abs(links[i].level) >= 2
          /\ links[i].distance = Len(nodes) - 1

Permutations(n) ==
    {p \in [1..n -> 1..n] : \A a \in 1..n : \A b \in 1..n : p[a] = p[b] => a = b}

\* the levels prepareGraph assigns when the document's links are given in
\* the order p: position k holds the document's link p[k]
LevelsOf(ls) == [k \in 1..Len(ls) |-> ls[k].level]

LevelsReordered(p) ==
    LevelsOf(PrepareGraphOf(doc.nodes,
        [k \in 1..Len(doc.links) |-> ParseLink(doc.nodes, doc.links[p[k]])]).links)

\* every reordering gives every link the level it has in this order
SameUnderReordering ==
    \A p \in Permutations(Len(links)) :
        LevelsReordered(p) = [k \in 1..Len(links) |-> links[p[k]].level]

\* the non-TOP links have pairwise distinct spans
DistinctSpans ==
    \A i \in NonTop(links) : \A j \in NonTop(links) :
        i # j => Span(links[i]) # Span(links[j])

\* no two same-direction non-TOP links of equal spanDistance share a gap
NoTiedOverlap ==
    \A i \in NonTop(links) : \A j \in NonTop(links) :
        (i # j /\ links[i].dir = links[j].dir
               /\ Cardinality(Span(links[i])) = Cardinality(Span(links[j]))) =>
            Span(links[i]) \cap Span(links[j]) = {}

\* C6 as stated: with pairwise distinct spans, every reordering of the link
\* list gives each link the same level.
C6_AsStated ==
    (pc = "ready" /\ WellFormed /\ DistinctSpans) => SameUnderReordering

\* C6: with pairwise distinct spans and no two same-direction
\* links of equal spanDistance sharing a gap, every reordering of the link
\* list gives each link the same level.
C6_Reordering ==
    (pc = "ready" /\ WellFormed /\ DistinctSpans /\ NoTiedOverlap) =>
        SameUnderReordering

\* a longer link given before a shorter one it overlaps, both above the line
C6_Witness ==
    /\ pc = "ready"
    /\ WellFormed /\ DistinctSpans /\ NoTiedOverlap
    /\ Len(links) = 2
    /\ links[1].dir = links[2].dir
    /\ Cardinality(Span(links[1])) > Cardinality(Span(links[2]))
    /\ Span(links[1]) \cap Span(links[2]) # {}
    /\ links[1].level = 2 * links[1].dir

(***************************************************************************)
(* Properties of the graph model.                                          *)
(***************************************************************************)
\* C3: a non-TOP link gets direction -1 exactly when its role is empty and
\* its post-type is "EQ", or its post-type is "H" in any case; every other
\* non-TOP link gets +1.
C3_Direction ==
    Preparing =>
        \A i \in NonTop(links) :
            links[i].dir =
                IF \/ links[i].rargname = "" /\ links[i].post = "EQ"
                   \/ ToUpperCase(links[i].post) = "H"
                THEN 0 - 1 ELSE 1

\* C8: a non-TOP link whose start or end is no node's id is reported as an
\* error; prepareGraph does not return normally with it.
C8_MissingReference ==
    (Prepared /\ ~WellFormed) => alert = "alert-danger"

(***************************************************************************)
(* Properties of the highlight sets.                                       *)
(***************************************************************************)
\* the id of the one selected node
SelectedId == nodes[LastOf(selected) + 1]

\* the ids one "EQ" link away from a member of S, in either direction
EqNeighbours(ls, S) ==
    {x \in {ls[k].start : k \in 1..Len(ls)} \cup {ls[k].end : k \in 1..Len(ls)} :
        \E k \in 1..Len(ls) :
            /\ ls[k].post = "EQ"
            /\ \/ ls[k].start = x /\ ls[k].end \in S
               \/ ls[k].end = x /\ ls[k].start \in S}

\* the ids a chain of one up to k + 1 "EQ" links away from a member of S
RECURSIVE EqChain(_, _, _)
EqChain(ls, S, k) ==
    IF k = 0 THEN EqNeighbours(ls, S)
    ELSE EqChain(ls, S, k - 1) \cup EqNeighbours(ls, EqChain(ls, S, k - 1))

\* the ids connected to id by a chain of one or more "EQ" links
EqConnected(ls, id) == EqChain(ls, {id}, Len(ls))

\* the loop ends after at most one pass per link and one more, with the ids
\* connected to the selected node
LabelSetClosed ==
    (Interactive /\ selected # {}) =>
        /\ labelset = EqConnected(links, SelectedId)
        /\ passes \in 1..(Len(links) + 1)

\* the graph's links are an "ARG1" link out of the selected node and an "EQ"
\* link into it, in one order or the other; the first is the node's only
\* "EQ" link in, the second its only argument link out
ScenarioLinks(a, e) ==
    /\ Len(links) = 2
    /\ {a, e} = {1, 2}
    /\ links[a].rargname = "ARG1" /\ links[a].start = SelectedId
    /\ links[e].post = "EQ" /\ links[e].end = SelectedId
    /\ ~(links[a].post = "EQ" /\ links[a].end = SelectedId)
    /\ ~(links[e].rargname # "" /\ links[e].start = SelectedId)

ScenarioSets(a, e) ==
    /\ outs = {links[a].end}
    /\ labelset = {SelectedId, links[e].start}
    /\ scopes = {}

PlainPost(p) == p \notin {"EQ", "H", "HEQ"}

\* C9 as stated: the label-set is the set of ids connected to the selected
\* node by "EQ" links, and a node with an "ARG1" link of any post-type to Y
\* and an "EQ" link from Z has out {Y}, label-set {N, Z} and no scope.
C9_AsStated ==
    /\ LabelSetClosed
    /\ (Interactive /\ selected # {}) =>
           \A a, e \in 1..Len(links) :
               ScenarioLinks(a, e) => ScenarioSets(a, e)

\* C9: when node N is selected the loop of updateHighlights ends and the
\* label-set is exactly the set of ids connected to N by a chain of one or
\* more "EQ" links in either direction; with an "ARG1" link to Y whose
\* post-type is none of "EQ", "H", "HEQ" and an "EQ" link from Z as the only
\* links, out is {Y}, the label-set is {N, Z} and scope is empty.
C9_Highlights ==
    /\ LabelSetClosed
    /\ (Interactive /\ selected # {}) =>
           \A a, e \in 1..Len(links) :
               (ScenarioLinks(a, e) /\ PlainPost(links[a].post)) =>
                   ScenarioSets(a, e)

\* the selected node reaches a third node over two "EQ" links, the second
\* found in a later pass than the first
C9_Witness ==
    /\ pc = "ready"
    /\ Cardinality(selected) = 1
    /\ SelectedId \in labelset
    /\ Cardinality(labelset) = 3
    /\ passes = 2

\* the scenario's graph with the first node selected
C9_Scenario ==
    /\ pc = "ready"
    /\ selected = {0}
    /\ ScenarioLinks(1, 2) /\ PlainPost(links[1].post)
    /\ links[1].end # links[2].start
    /\ links[2].start # SelectedId

(***************************************************************************)
(* Properties of the node handlers.                                        *)
(***************************************************************************)
\* C10: after any sequence of mouseover, mouseout and click events at most
\* one node is sticky, every sticky node is selected, graph.sticky is true
\* exactly when some node is sticky, and while it is true the selected nodes
\* are the pinned node alone.
C10_Sticky ==
    /\ Cardinality(nodeSticky) <= 1
    /\ nodeSticky \subseteq selected
    /\ graphSticky <=> nodeSticky # {}
    /\ graphSticky => selected = nodeSticky

\* a node of a graph of several nodes is pinned, and the highlight sets are
\* those of the pinned node
C10_Witness ==
    /\ graphSticky
    /\ Len(nodes) >= 2
    /\ \E i \in NodeIndices : nodeSticky = {i} /\ selected = {i}
    /\ outs \cup ins \cup labelset \cup scopes # {}

====
